---- MODULE Spec2Model ----
(***************************************************************************)
(* Ambient Code Watcher (codex-rs/cli): the scheduler loop of run_main,    *)
(* the review cycle perform_ambient_check, the ad hoc query handler        *)
(* run_query_response, the broadcast channel between them, and the         *)
(* project configuration's rule engine.                                    *)
(*                                                                         *)
(* Strings are modelled as tuples of one-character strings, so that        *)
(* trimming, prefix/suffix tests and glob matching are computed as the     *)
(* code computes them.                                                     *)
(***************************************************************************)
EXTENDS Integers, Sequences, FiniteSets, TLC

(***************************************************************************)
(* Bounds of the model.                                                    *)
(***************************************************************************)
\* Backlog of the broadcast channel.  The program creates it with
\* broadcast::channel(100) (ambient.rs:61); the model keeps the overflow
\* behaviour and scales the size down.
Capacity == 2

\* How many times the working tree is edited by the outside world.
MaxEdits == 1

(***************************************************************************)
(* Strings.                                                                *)
(***************************************************************************)
\* char::is_whitespace, for the characters of the model's alphabet
IsWhitespace(c) == c = " "

\* str::trim_start
RECURSIVE TrimStart(_)
TrimStart(s) ==
    IF s # <<>> /\ IsWhitespace(Head(s)) THEN TrimStart(Tail(s)) ELSE s

\* str::trim_end
RECURSIVE TrimEnd(_)
TrimEnd(s) ==
    IF s # <<>> /\ IsWhitespace(s[Len(s)])
    THEN TrimEnd(SubSeq(s, 1, Len(s) - 1))
    ELSE s

\* str::trim: leading and trailing whitespace removed
Trim(s) == TrimEnd(TrimStart(s))

\* str::starts_with
StartsWith(s, p) == Len(p) <= Len(s) /\ SubSeq(s, 1, Len(p)) = p

\* str::ends_with
EndsWith(s, p) ==
    Len(p) <= Len(s) /\ SubSeq(s, Len(s) - Len(p) + 1, Len(s)) = p

\* str::trim_start_matches(p): the prefix p removed as often as it occurs
RECURSIVE TrimStartMatches(_, _)
TrimStartMatches(s, p) ==
    IF p # <<>> /\ StartsWith(s, p)
    THEN TrimStartMatches(SubSeq(s, Len(p) + 1, Len(s)), p)
    ELSE s

\* str::trim_end_matches(p): the suffix p removed as often as it occurs
RECURSIVE TrimEndMatches(_, _)
TrimEndMatches(s, p) ==
    IF p # <<>> /\ EndsWith(s, p)
    THEN TrimEndMatches(SubSeq(s, 1, Len(s) - Len(p)), p)
    ELSE s

(***************************************************************************)
(* glob::Pattern, for patterns made of literal characters, ?, * and **.    *)
(***************************************************************************)
IsSeparator(c) == c = "/"

\* Pattern::new: the token list of a pattern, or <<"INVALID">>.  A run of
\* three or more stars is an error; ** must be a whole path component; a
\* separator after ** belongs to the ** token.
RECURSIVE GlobTokens(_, _)
GlobTokens(p, i) ==
    IF i > Len(p) THEN <<>>
    ELSE IF p[i] = "*" THEN
        IF i + 2 <= Len(p) /\ p[i + 1] = "*" /\ p[i + 2] = "*" THEN <<"INVALID">>
        ELSE IF i + 1 <= Len(p) /\ p[i + 1] = "*" THEN
            IF ~(i = 1 \/ IsSeparator(p[i - 1])) THEN <<"INVALID">>
            ELSE IF i + 2 <= Len(p) /\ IsSeparator(p[i + 2])
                 THEN <<"ANYREC">> \o GlobTokens(p, i + 3)
            ELSE IF i + 1 = Len(p) THEN <<"ANYREC">>
            ELSE <<"INVALID">>
        ELSE <<"ANYSEQ">> \o GlobTokens(p, i + 1)
    ELSE IF p[i] = "?" THEN <<"ANYCHAR">> \o GlobTokens(p, i + 1)
    ELSE <<p[i]>> \o GlobTokens(p, i + 1)

GlobValid(p) == \A k \in 1..Len(GlobTokens(p, 1)) : GlobTokens(p, 1)[k] # "INVALID"

\* Pattern::matches_from with the default MatchOptions: * crosses
\* separators, ** gives up the rest of the pattern only after a separator.
RECURSIVE GlobFrom(_, _, _, _)
GlobFrom(toks, ti, f, fj) ==
    IF ti > Len(toks) THEN fj > Len(f)
    ELSE IF toks[ti] \in {"ANYSEQ", "ANYREC"} THEN
        \/ GlobFrom(toks, ti + 1, f, fj)
        \/ \E k \in fj..Len(f) :
              /\ toks[ti] = "ANYREC" => IsSeparator(f[k])
              /\ GlobFrom(toks, ti + 1, f, k + 1)
        \/ /\ toks[ti] = "ANYREC"
           /\ \A t \in (ti + 1)..Len(toks) : toks[t] \in {"ANYSEQ", "ANYREC"}
    ELSE /\ fj <= Len(f)
         /\ toks[ti] = "ANYCHAR" \/ toks[ti] = f[fj]
         /\ GlobFrom(toks, ti + 1, f, fj + 1)

\* glob::Pattern::new(pattern).ok().map_or(false, |p| p.matches(file_path))
GlobMatches(pattern, file_path) ==
    GlobValid(pattern) /\ GlobFrom(GlobTokens(pattern, 1), 1, file_path, 1)

(***************************************************************************)
(* Paths and patterns of the model.                                        *)
(***************************************************************************)
\* "a.rs"
PathA == <<"a", ".", "r", "s">>
\* "b.txt"
PathB == <<"b", ".", "t", "x", "t">>
\* "target/x"
PathT == <<"t", "a", "r", "g", "e", "t", "/", "x">>

Paths == {PathA, PathB, PathT}

\* "*"
PatStar == <<"*">>
\* "*.rs", "*.ts", "*.js", "*.go", "*.cpp", "*.min.js"
PatRs == <<"*", ".", "r", "s">>
PatTs == <<"*", ".", "t", "s">>
PatJs == <<"*", ".", "j", "s">>
PatGo == <<"*", ".", "g", "o">>
PatCpp == <<"*", ".", "c", "p", "p">>
PatMinJs == <<"*", ".", "m", "i", "n", ".", "j", "s">>
\* "target/**", "node_modules/**", ".git/**"
PatTarget == <<"t", "a", "r", "g", "e", "t", "/", "*", "*">>
PatNodeModules ==
    <<"n", "o", "d", "e", "_", "m", "o", "d", "u", "l", "e", "s", "/", "*", "*">>
PatGit == <<".", "g", "i", "t", "/", "*", "*">>

(***************************************************************************)
(* ProjectConfig (ambient_project_config.rs).                              *)
(***************************************************************************)
\* (variant) the default configuration declares no rule
DefaultConfig_NoRules ==
    [ enabled |-> TRUE,
      exclude_patterns |-> <<PatTarget, PatNodeModules, PatGit, PatMinJs>>,
      reviews |-> <<>> ]

\* impl Default for ProjectConfig: the three built-in rules and the default
\* exclude set
DefaultConfig ==
    [ enabled |-> TRUE,
      exclude_patterns |-> <<PatTarget, PatNodeModules, PatGit, PatMinJs>>,
      reviews |-> <<
        [ name |-> "syntax", file_patterns |-> <<PatRs, PatTs, PatJs>>,
          priority |-> 200, enabled |-> TRUE ],
        [ name |-> "security", file_patterns |-> <<PatStar>>,
          priority |-> 150, enabled |-> TRUE ],
        [ name |-> "performance", file_patterns |-> <<PatRs, PatGo, PatCpp>>,
          priority |-> 100, enabled |-> TRUE ] >> ]

\* A project file .ambient/config.toml that declares its own rules and no
\* exclude patterns (serde default: empty list)
CustomConfig ==
    [ enabled |-> TRUE,
      exclude_patterns |-> <<>>,
      reviews |-> <<
        [ name |-> "style", file_patterns |-> <<PatRs>>,
          priority |-> 10, enabled |-> TRUE ],
        [ name |-> "docs", file_patterns |-> <<PatRs>>,
          priority |-> 50, enabled |-> TRUE ],
        [ name |-> "off", file_patterns |-> <<PatStar>>,
          priority |-> 99, enabled |-> FALSE ] >> ]

\* A project file with enabled = false
DisabledConfig ==
    [ enabled |-> FALSE, exclude_patterns |-> <<>>, reviews |-> <<>> ]

\* What may be found at .ambient/config.toml
ConfigFiles == {"absent", "invalid", "custom", "disabled"}

\* ProjectConfig::load_from_project: Ok(default) when the file is absent,
\* Err when it cannot be read or parsed, Ok(parsed) otherwise
load_from_project(file) ==
    CASE file = "absent"   -> [ok |-> TRUE, config |-> DefaultConfig]
      [] file = "invalid"  -> [ok |-> FALSE, config |-> DefaultConfig]
      [] file = "custom"   -> [ok |-> TRUE, config |-> CustomConfig]
      [] file = "disabled" -> [ok |-> TRUE, config |-> DisabledConfig]

\* (variant) a project file that cannot be loaded switches the watcher off
LoadProjectConfig_Strict(file) ==
    IF load_from_project(file).ok THEN load_from_project(file).config
    ELSE DisabledConfig

\* load_from_project(cwd).unwrap_or_default()
LoadProjectConfig(file) ==
    IF load_from_project(file).ok THEN load_from_project(file).config
    ELSE DefaultConfig

\* ProjectConfig::matches_patterns, one pattern: the three hand-written
\* cases, then the glob fallback
MatchesPattern(file_path, pattern) ==
    \/ pattern = PatStar
    \/ /\ StartsWith(pattern, <<"*", ".">>)
       /\ EndsWith(file_path, <<".">> \o TrimStartMatches(pattern, <<"*", ".">>))
    \/ /\ EndsWith(pattern, <<"/", "*", "*">>)
       /\ StartsWith(file_path, TrimEndMatches(pattern, <<"/", "*", "*">>))
    \/ GlobMatches(pattern, file_path)

\* ProjectConfig::matches_patterns
matches_patterns(file_path, patterns) ==
    \E k \in 1..Len(patterns) : MatchesPattern(file_path, patterns[k])

\* (variant) nothing is excluded
is_excluded_Never(config, file_path) == FALSE

\* ProjectConfig::is_excluded
is_excluded(config, file_path) ==
    matches_patterns(file_path, config.exclude_patterns)

\* the filter of get_reviews_for_file, in declaration order
RECURSIVE FilterReviews(_, _)
FilterReviews(rs, file_path) ==
    IF rs = <<>> THEN <<>>
    ELSE (IF Head(rs).enabled /\ matches_patterns(file_path, Head(rs).file_patterns)
          THEN <<Head(rs)>> ELSE <<>>) \o FilterReviews(Tail(rs), file_path)

\* (variant) r goes before the elements of its own priority
RECURSIVE InsertByPriority_Unstable(_, _)
InsertByPriority_Unstable(sorted, r) ==
    IF sorted = <<>> THEN <<r>>
    ELSE IF Head(sorted).priority > r.priority
         THEN <<Head(sorted)>> \o InsertByPriority_Unstable(Tail(sorted), r)
         ELSE <<r>> \o sorted

\* insertion of r into a list sorted by priority descending, after every
\* element b with b.priority >= r.priority (slice::sort_by is stable)
RECURSIVE InsertByPriority(_, _)
InsertByPriority(sorted, r) ==
    IF sorted = <<>> THEN <<r>>
    ELSE IF Head(sorted).priority >= r.priority
         THEN <<Head(sorted)>> \o InsertByPriority(Tail(sorted), r)
         ELSE <<r>> \o sorted

\* reviews.sort_by(|a, b| b.priority.cmp(&a.priority))
RECURSIVE SortByPriority(_)
SortByPriority(rs) ==
    IF rs = <<>> THEN <<>>
    ELSE InsertByPriority(SortByPriority(SubSeq(rs, 1, Len(rs) - 1)), rs[Len(rs)])

\* ProjectConfig::get_reviews_for_file
get_reviews_for_file(config, file_path) ==
    SortByPriority(FilterReviews(config.reviews, file_path))

(***************************************************************************)
(* AmbientEvent and the broadcast channel (tokio::sync::broadcast).        *)
(***************************************************************************)
\* enum AmbientEvent: a kind and one string payload.  tag names which of the
\* program's message formats the payload was built with.
Event(kind, tag, text) == [kind |-> kind, tag |-> tag, text |-> text]

EventKinds == {"Analysis", "UserQuery", "QueryResponse", "System", "ProjectRoot"}

\* An event as it waits in the receiver of run_main, which matches
\* UserQuery(prompt_text) and looks at nothing of any other event.
Unread(ev) == IF ev.kind = "UserQuery" THEN ev ELSE Event(ev.kind, "", <<>>)

\* Sender::send, as seen by one receiver whose unread events are q: the
\* event is appended; when the backlog is full the oldest unread event is
\* overwritten and the receiver is marked as lagging.
SendTo(q, lagged, ev) ==
    IF Len(q) < Capacity
    THEN [q |-> Append(q, ev), lagged |-> lagged, dropped |-> <<>>]
    ELSE [q |-> Append(Tail(q), ev), lagged |-> TRUE, dropped |-> <<Head(q)>>]

\* a sequence of sends, in order
RECURSIVE SendAll(_, _, _)
SendAll(q, lagged, evs) ==
    IF evs = <<>> THEN [q |-> q, lagged |-> lagged, dropped |-> <<>>]
    ELSE LET one  == SendTo(q, lagged, Head(evs))
             rest == SendAll(one.q, one.lagged, Tail(evs))
         IN  [q |-> rest.q, lagged |-> rest.lagged,
              dropped |-> one.dropped \o rest.dropped]

(***************************************************************************)
(* The model provider's answer to one streaming request.                   *)
(***************************************************************************)
\* Items of a response stream: "C" is ResponseEvent::Completed, "E" an Err
\* item, "O" any other ResponseEvent; every other item is an
\* OutputTextDelta carrying that text.
Streams ==
    { <<"x", "y", "C">>, <<"x", "C", "y">>, <<"O", "x">>, <<"x", "E">>, <<"E">>, <<>> }

\* stream_chat_completions(..).await: Err, or Ok(stream)
ModelReplies ==
    {[open |-> FALSE, stream |-> <<>>]} \cup {[open |-> TRUE, stream |-> s] : s \in Streams}

\* (variant) a stream that ends without Completed counts as a failure
RECURSIVE ConsumeStream_EndIsError(_, _)
ConsumeStream_EndIsError(stream, full_response) ==
    IF stream = <<>> THEN [ok |-> FALSE, text |-> full_response]
    ELSE IF Head(stream) = "C" THEN [ok |-> TRUE, text |-> full_response]
    ELSE IF Head(stream) = "E" THEN [ok |-> FALSE, text |-> full_response]
    ELSE IF Head(stream) = "O" THEN ConsumeStream_EndIsError(Tail(stream), full_response)
    ELSE ConsumeStream_EndIsError(Tail(stream), Append(full_response, Head(stream)))

\* (variant) Completed is ignored like any other item: the loop runs to the
\* end of the stream
RECURSIVE ConsumeStream_ToEnd(_, _)
ConsumeStream_ToEnd(stream, full_response) ==
    IF stream = <<>> THEN [ok |-> TRUE, text |-> full_response]
    ELSE IF Head(stream) = "E" THEN [ok |-> FALSE, text |-> full_response]
    ELSE IF Head(stream) \in {"O", "C"}
         THEN ConsumeStream_ToEnd(Tail(stream), full_response)
    ELSE ConsumeStream_ToEnd(Tail(stream), Append(full_response, Head(stream)))

\* the while-let loop over stream.next(): deltas are appended, Completed
\* breaks, an Err item returns, anything else is ignored, the end of the
\* stream leaves the loop
RECURSIVE ConsumeStream(_, _)
ConsumeStream(stream, full_response) ==
    IF stream = <<>> THEN [ok |-> TRUE, text |-> full_response]
    ELSE IF Head(stream) = "C" THEN [ok |-> TRUE, text |-> full_response]
    ELSE IF Head(stream) = "E" THEN [ok |-> FALSE, text |-> full_response]
    ELSE IF Head(stream) = "O" THEN ConsumeStream(Tail(stream), full_response)
    ELSE ConsumeStream(Tail(stream), Append(full_response, Head(stream)))

\* The events run_analysis_prompt / run_query_response publish for a reply,
\* and the Result they return.  (The two lookups before the request are of
\* the model and the provider that run_main sets itself.)
RunPrompt(kind, reply) ==
    IF ~reply.open
    THEN [ok |-> FALSE, events |-> <<Event(kind, "connect_error", <<>>)>>]
    ELSE LET c == ConsumeStream(reply.stream, <<>>)
         IN  IF c.ok
             THEN [ok |-> TRUE, events |-> <<Event(kind, "result", c.text)>>]
             ELSE [ok |-> FALSE, events |-> <<Event(kind, "stream_error", <<>>)>>]

(***************************************************************************)
(* The working tree as the version-control commands report it.             *)
(***************************************************************************)
\* How many changed files one status listing names.
MaxFiles == 2

\* git status --porcelain: the changed paths, in listing order, no path twice
Listings ==
    { l \in UNION {[1..n -> Paths] : n \in 0..MaxFiles} :
        \A i, j \in 1..Len(l) : i # j => l[i] # l[j] }

\* the empty HashMap
NoDiffs == [p \in {} |-> 0]

(***************************************************************************)
(* State.                                                                  *)
(***************************************************************************)
VARIABLES
    pc,              \* where the loop of run_main is
    recvDisabled,    \* this select! has seen rx.recv() return Err
    sigPending,      \* the ctrl_c() future of this select! has its signal
    sigRaised,       \* history: a Ctrl-C was sent to the running process
    rxq,             \* rx of run_main: the unread events, oldest first
    rxLagged,        \* rx of run_main: events were overwritten unread
    treeVer,         \* edits of the working tree since the diff batch ended
    project_config,  \* perform_ambient_check: the loaded configuration
    changed_files,   \* perform_ambient_check: the parsed status listing
    all_diffs,       \* perform_ambient_check: path -> captured diff
    di,              \* index of the diff loop (ambient.rs:302)
    fi,              \* index of the analysis loop (ambient.rs:311)
    reviews,         \* get_reviews_for_file's result for changed_files[fi]
    ri,              \* index of the rule loop / of the default prompt
    review_index,    \* the counter printed in a custom rule's title
    sent,            \* the events the last step published, in order
    diffFailed,      \* history: a diff command of this cycle has failed
    prompt_text,     \* the payload of the UserQuery being answered
    result,          \* the Result the callee in progress returned
    hcalls,          \* history: the model calls of the handler in progress
    active,          \* history: handler bodies in progress
    arg,             \* a function under test: its name and its arguments
    ret,             \* a function under test: <<>>, or <<its result>>
    port,            \* run_server: the configured port
    busy,            \* the ports on which bind fails
    try_port,        \* run_server: the port of the next bind
    gw,              \* where run_server is
    published,       \* the channel: every event sent so far, in order
    sub,             \* the channel: the state of each receiver
    conn,            \* websocket: the state of each connection
    config_file      \* .ambient/config.toml as it is on disk

loopVars == <<pc, recvDisabled, sigPending, sigRaised>>
busVars == <<rxq, rxLagged>>
envVars == <<treeVer>>
cycleVars ==
    <<project_config, changed_files, all_diffs, di, fi, reviews, ri,
      review_index>>
\* the state of run_main and of its handlers
schedVars ==
    <<loopVars, busVars, sent, envVars, cycleVars, diffFailed, prompt_text, result,
      hcalls, active>>
\* the state of the other units: functions applied on their own
gwVars == <<port, busy, try_port, gw>>
chanVars == <<published, sub, conn>>
diskVars == <<config_file>>
auxVars == <<arg, ret, gwVars, chanVars, diskVars>>
vars == <<schedVars, auxVars>>

\* the locals of a handler that is not running
NoConfig == [enabled |-> FALSE, exclude_patterns |-> <<>>, reviews |-> <<>>]

NoLocals ==
    /\ project_config' = NoConfig
    /\ changed_files' = <<>>
    /\ all_diffs' = NoDiffs
    /\ di' = 0
    /\ fi' = 0
    /\ reviews' = <<>>
    /\ ri' = 0
    /\ review_index' = 0

\* run_main on entering its loop
InitLoop ==
    /\ pc = "select"
    /\ recvDisabled = FALSE
    /\ sigPending = FALSE
    /\ sigRaised = FALSE
    /\ rxq = <<>>
    /\ rxLagged = FALSE
    /\ sent = <<>>
    /\ treeVer = 0
    /\ project_config = NoConfig
    /\ changed_files = <<>>
    /\ all_diffs = NoDiffs
    /\ di = 0
    /\ fi = 0
    /\ reviews = <<>>
    /\ ri = 0
    /\ review_index = 0
    /\ diffFailed = FALSE
    /\ prompt_text = <<>>
    /\ result = "none"
    /\ hcalls = <<>>
    /\ active = 0

\* no function is under test
NoArg == [fn |-> "none"]

\* the web server is not part of the behaviour
InitNoServer ==
    /\ port = 0
    /\ busy = {}
    /\ try_port = 0
    /\ gw = "none"

\* the connections a client may open
Conns == {"c1", "c2"}

\* websocket(..) was not called for the connection
NoConn == [pc |-> "none", pos |-> 0, frames |-> <<>>,
           send_task |-> "none", recv_task |-> "none"]

\* the receivers of the channel: rx of run_main, and the rx of a connection
Subs == {"main", "client"}

\* broadcast::channel(..): nothing sent, rx of run_main subscribed, no
\* connection yet
InitChannel ==
    /\ published = <<>>
    /\ sub = [s \in Subs |->
                [state |-> IF s = "main" THEN "open" ELSE "none",
                 pos |-> 1, first |-> 1, lost |-> 0, got |-> <<>>]]
    /\ conn = [c \in Conns |-> NoConn]

\* the project has no .ambient/config.toml
InitNoProjectFile == config_file = "absent"

InitAux ==
    /\ arg = NoArg
    /\ ret = <<>>
    /\ InitNoServer
    /\ InitChannel
    /\ InitNoProjectFile

Init == InitLoop /\ InitAux

\* tx.send(ev) for each of evs, as the receiver of run_main sees it
Publish(evs) ==
    LET r == SendAll(rxq, rxLagged, [i \in 1..Len(evs) |-> Unread(evs[i])])
    IN  /\ rxq' = r.q
        /\ rxLagged' = r.lagged
        /\ sent' = evs

\* a step that publishes nothing
NoSend ==
    /\ UNCHANGED busVars
    /\ sent' = <<>>

\* (variant) handlers are spawned instead of awaited: the loop is back in
\* select! while a handler body still runs
AtSelect_Spawned == pc # "terminated"

\* the loop of run_main is inside select!, waiting on its three sources
AtSelect == pc = "select"

\* a branch of select! was taken: the futures of the other branches are
\* dropped, and with the ctrl_c() future its listener
LeaveSelect ==
    /\ recvDisabled' = FALSE
    /\ sigPending' = FALSE

(***************************************************************************)
(* perform_ambient_check: one review cycle.                                *)
(***************************************************************************)
\* run_git_command(["status", "--porcelain"]): Err on a non-zero exit,
\* otherwise the listing
StatusResults ==
    {[ok |-> FALSE, lines |-> <<>>]} \cup {[ok |-> TRUE, lines |-> l] : l \in Listings}

\* one model call of the handler in progress: the prompt's template, the
\* file it is about, where its content came from, and how many edits the
\* working tree had seen since the diff batch when the content was captured
Call(title, path, src, ver, prompt) ==
    [title |-> title, path |-> path, src |-> src, ver |-> ver, prompt |-> prompt]

\* the two built-in prompts of the default review set (ambient.rs:333-354)
DefaultTitles == <<"default_syntax", "default_security">>

\* select! takes the ticker branch and perform_ambient_check runs up to the
\* diff batch: configuration, status listing, count message, git root
Tick(file) ==
    /\ UNCHANGED auxVars
    /\ AtSelect
    /\ LeaveSelect
    /\ active' = active + 1
    /\ hcalls' = <<>>
    /\ UNCHANGED <<sigRaised, envVars, fi, reviews, ri, review_index, diffFailed,
                   prompt_text>>
    /\ LET config == LoadProjectConfig(file)
       IN  IF ~config.enabled
           THEN /\ pc' = "cycle_ret"
                /\ result' = "ok"
                /\ NoSend
                /\ UNCHANGED <<project_config, changed_files, all_diffs, di>>
           ELSE \E status \in StatusResults, revparse \in BOOLEAN :
                  IF ~status.ok
                  THEN /\ pc' = "cycle_ret"
                       /\ result' = "status_failed"
                       /\ NoSend
                       /\ UNCHANGED <<project_config, changed_files,
                                      all_diffs, di>>
                  ELSE IF status.lines = <<>>
                  THEN /\ pc' = "cycle_ret"
                       /\ result' = "ok"
                       /\ NoSend
                       /\ UNCHANGED <<project_config, changed_files,
                                      all_diffs, di>>
                  ELSE /\ Publish(<<Event("Analysis", "count", <<>>)>>)
                       /\ IF ~revparse
                          THEN /\ pc' = "cycle_ret"
                               /\ result' = "revparse_failed"
                               /\ UNCHANGED <<project_config, changed_files,
                                              all_diffs, di>>
                          ELSE /\ pc' = "diff"
                               /\ result' = "none"
                               /\ project_config' = config
                               /\ changed_files' = status.lines
                               /\ all_diffs' = NoDiffs
                               /\ di' = 1

\* the ticker branch, whatever project file the cycle finds on disk
TickStart == \E file \in ConfigFiles : Tick(file)

\* one pass of the diff loop: git diff HEAD -- file_path.  A failed command
\* and an empty diff both leave the map without an entry for the path.  A
\* captured diff is of the batch: 0 edits later.
DiffStep ==
    /\ UNCHANGED auxVars
    /\ pc = "diff"
    /\ \E out \in {"fail", "empty", "diff"} :
         /\ all_diffs' =
               IF out = "diff"
               THEN [p \in DOMAIN all_diffs \cup {changed_files[di]} |->
                       IF p = changed_files[di] THEN 0 ELSE all_diffs[p]]
               ELSE all_diffs
         /\ diffFailed' = (diffFailed \/ out = "fail")
    /\ di' = di + 1
    /\ IF di = Len(changed_files)
       THEN pc' = "file" /\ fi' = 1
       ELSE pc' = "diff" /\ UNCHANGED fi
    /\ NoSend
    /\ UNCHANGED <<recvDisabled, sigPending, sigRaised, envVars,
                   project_config, changed_files, reviews, ri, review_index,
                   prompt_text, result, hcalls, active>>

\* the head of the analysis loop reads the project file again for each file
FileStep_Reloading ==
    /\ UNCHANGED auxVars
    /\ pc = "file"
    /\ UNCHANGED <<recvDisabled, sigPending, sigRaised, envVars,
                   project_config, changed_files, all_diffs, di,
                   diffFailed, prompt_text, hcalls, active>>
    /\ LET now == LoadProjectConfig(config_file)
       IN  IF fi > Len(changed_files)
           THEN /\ pc' = "cycle_ret"
                /\ result' = "ok"
                /\ NoSend
                /\ UNCHANGED <<fi, reviews, ri, review_index>>
           ELSE IF is_excluded(now, changed_files[fi])
           THEN /\ Publish(<<Event("Analysis", "skip", changed_files[fi])>>)
                /\ fi' = fi + 1
                /\ pc' = "file"
                /\ UNCHANGED <<reviews, ri, review_index, result>>
           ELSE /\ Publish(<<Event("Analysis", "start", changed_files[fi])>>)
                /\ reviews' = get_reviews_for_file(now, changed_files[fi])
                /\ ri' = 1
                /\ review_index' =
                      IF get_reviews_for_file(now, changed_files[fi]) = <<>>
                      THEN 0 ELSE 1
                /\ pc' = "rule"
                /\ UNCHANGED <<fi, result>>

\* the head of the analysis loop for changed_files[fi]: the exclusion check,
\* the start marker and the rule engine; past the last file the function
\* returns Ok
FileStep ==
    /\ UNCHANGED auxVars
    /\ pc = "file"
    /\ UNCHANGED <<recvDisabled, sigPending, sigRaised, envVars,
                   project_config, changed_files, all_diffs, di,
                   diffFailed, prompt_text, hcalls, active>>
    /\ IF fi > Len(changed_files)
       THEN /\ pc' = "cycle_ret"
            /\ result' = "ok"
            /\ NoSend
            /\ UNCHANGED <<fi, reviews, ri, review_index>>
       ELSE IF is_excluded(project_config, changed_files[fi])
       THEN /\ Publish(<<Event("Analysis", "skip", changed_files[fi])>>)
            /\ fi' = fi + 1
            /\ pc' = "file"
            /\ UNCHANGED <<reviews, ri, review_index, result>>
       ELSE /\ Publish(<<Event("Analysis", "start", changed_files[fi])>>)
            /\ reviews' = get_reviews_for_file(project_config, changed_files[fi])
            /\ ri' = 1
            /\ review_index' =
                  IF get_reviews_for_file(project_config, changed_files[fi]) = <<>>
                  THEN 0 ELSE 1
            /\ pc' = "rule"
            /\ UNCHANGED <<fi, result>>

\* analyze_with_prompt up to its await: the title is published and the
\* request is sent
StartCall(title, src, ver) ==
    /\ Publish(<<Event("Analysis", "title", <<title>>)>>)
    /\ hcalls' = Append(hcalls, Call(title, changed_files[fi], src, ver, <<>>))
    /\ pc' = "model"
    /\ UNCHANGED <<fi, reviews, ri, review_index>>

\* (variant) the loop goes on to the next file without a completion marker
EndFile_NoMarker ==
    /\ NoSend
    /\ fi' = fi + 1
    /\ reviews' = <<>>
    /\ ri' = 0
    /\ review_index' = 0
    /\ pc' = "file"
    /\ UNCHANGED hcalls

\* the analysis of changed_files[fi] is over: the completion marker, and on
\* to the next file
EndFile ==
    /\ Publish(<<Event("Analysis", "done", changed_files[fi])>>)
    /\ fi' = fi + 1
    /\ reviews' = <<>>
    /\ ri' = 0
    /\ review_index' = 0
    /\ pc' = "file"
    /\ UNCHANGED hcalls

\* the custom rule at reviews[ri] is passed over: `continue`
SkipRule ==
    /\ ri' = ri + 1
    /\ pc' = "rule"
    /\ NoSend
    /\ UNCHANGED <<fi, reviews, review_index, hcalls>>

\* the body of the analysis loop between two model calls: the next default
\* prompt or the next custom rule, or the end of the file
RuleStep ==
    /\ UNCHANGED auxVars
    /\ pc = "rule"
    /\ UNCHANGED <<recvDisabled, sigPending, sigRaised, envVars,
                   project_config, changed_files, all_diffs, di,
                   diffFailed, prompt_text, result, active>>
    /\ LET file_path == changed_files[fi]
       IN  IF reviews = <<>>
           THEN IF file_path \in DOMAIN all_diffs /\ ri <= Len(DefaultTitles)
                THEN StartCall(DefaultTitles[ri], "diff", all_diffs[file_path])
                ELSE EndFile
           ELSE IF ri > Len(reviews)
                THEN EndFile
                ELSE IF file_path \in DOMAIN all_diffs
                THEN StartCall(reviews[ri].name, "diff", all_diffs[file_path])
                ELSE \E readable \in BOOLEAN :
                       IF readable
                       THEN StartCall(reviews[ri].name, "file", treeVer)
                       ELSE SkipRule

\* run_analysis_prompt from the provider's reply to its return
ModelDone ==
    /\ UNCHANGED auxVars
    /\ pc = "model"
    /\ \E reply \in ModelReplies :
         LET r == RunPrompt("Analysis", reply)
         IN  /\ Publish(r.events)
             /\ result' = IF r.ok THEN "ok" ELSE "err"
    /\ pc' = "analyzed"
    /\ UNCHANGED <<recvDisabled, sigPending, sigRaised, envVars,
                   cycleVars, diffFailed, prompt_text, hcalls, active>>

\* (variant) analyze_with_prompt hands the Err on with `?`: the cycle
\* returns it
AnalyzeReturn_Propagating ==
    /\ UNCHANGED auxVars
    /\ pc = "analyzed"
    /\ IF result = "err"
       THEN /\ NoSend
            /\ pc' = "cycle_ret"
            /\ UNCHANGED <<result, ri, review_index>>
       ELSE /\ Publish(<<>>)
            /\ result' = "none"
            /\ ri' = ri + 1
            /\ review_index' = IF reviews = <<>> THEN review_index ELSE review_index + 1
            /\ pc' = "rule"
    /\ UNCHANGED <<recvDisabled, sigPending, sigRaised, envVars,
                   project_config, changed_files, all_diffs, di, fi, reviews,
                   diffFailed, prompt_text, hcalls, active>>

\* analyze_with_prompt after the await: an Err is published and dropped,
\* and the loop goes on
AnalyzeReturn ==
    /\ UNCHANGED auxVars
    /\ pc = "analyzed"
    /\ Publish(IF result = "err" THEN <<Event("Analysis", "error", <<>>)>> ELSE <<>>)
    /\ result' = "none"
    /\ ri' = ri + 1
    /\ review_index' = IF reviews = <<>> THEN review_index ELSE review_index + 1
    /\ pc' = "rule"
    /\ UNCHANGED <<recvDisabled, sigPending, sigRaised, envVars,
                   project_config, changed_files, all_diffs, di, fi, reviews,
                   diffFailed, prompt_text, hcalls, active>>

\* (variant) run_main hands the Err of perform_ambient_check on with `?`
\* and ends
CycleReturn_Fatal ==
    /\ UNCHANGED auxVars
    /\ pc = "cycle_ret"
    /\ NoSend
    /\ pc' = IF result # "ok" THEN "terminated" ELSE "select"
    /\ result' = "none"
    /\ hcalls' = <<>>
    /\ active' = active - 1
    /\ NoLocals
    /\ diffFailed' = FALSE
    /\ treeVer' = 0
    /\ UNCHANGED <<recvDisabled, sigPending, sigRaised, prompt_text>>

\* perform_ambient_check has returned to run_main: an Err is published as
\* an Analysis event, and the loop is back at select!
CycleReturn ==
    /\ UNCHANGED auxVars
    /\ pc = "cycle_ret"
    /\ Publish(IF result # "ok"
               THEN <<Event("Analysis", "cycle_error", <<>>)>> ELSE <<>>)
    /\ pc' = "select"
    /\ result' = "none"
    /\ hcalls' = <<>>
    /\ active' = active - 1
    /\ NoLocals
    /\ diffFailed' = FALSE
    /\ treeVer' = 0
    /\ UNCHANGED <<recvDisabled, sigPending, sigRaised, prompt_text>>

(***************************************************************************)
(* run_main: the select! loop, and the query handler.                      *)
(***************************************************************************)
\* What a client may type into the web UI.  "a" and " a ".
QueryTexts == { <<"a">>, <<" ", "a", " ">> }

\* (variant) the payload is handed over as it was received
QueryPrompt_Raw(text) == text

\* the prompt run_main hands to run_query_response: prompt_text.trim()
QueryPrompt(text) == Trim(text)

\* (variant) every event received is passed to run_query_response
RecvEvent_AnyEvent ==
    /\ UNCHANGED auxVars
    /\ AtSelect
    /\ ~recvDisabled
    /\ sent' = <<>>
    /\ UNCHANGED <<sigRaised, envVars, cycleVars, diffFailed, result>>
    /\ IF rxLagged
       THEN /\ rxLagged' = FALSE
            /\ recvDisabled' = TRUE
            /\ UNCHANGED <<pc, sigPending, rxq, prompt_text, hcalls, active>>
       ELSE /\ rxq # <<>>
            /\ rxq' = Tail(rxq)
            /\ LeaveSelect
            /\ UNCHANGED rxLagged
            /\ pc' = "query"
            /\ prompt_text' = Head(rxq).text
            /\ hcalls' = <<Call("query", <<>>, "text", 0,
                                QueryPrompt(Head(rxq).text))>>
            /\ active' = active + 1

\* select! polls rx.recv().  Err(Lagged) does not match Ok(event): the
\* branch is disabled for this select!, which keeps waiting on the others.
\* Ok(UserQuery) starts run_query_response with the trimmed text; any other
\* event ends the loop iteration at once.
RecvEvent ==
    /\ UNCHANGED auxVars
    /\ AtSelect
    /\ ~recvDisabled
    /\ sent' = <<>>
    /\ UNCHANGED <<sigRaised, envVars, cycleVars, diffFailed, result>>
    /\ IF rxLagged
       THEN /\ rxLagged' = FALSE
            /\ recvDisabled' = TRUE
            /\ UNCHANGED <<pc, sigPending, rxq, prompt_text, hcalls, active>>
       ELSE /\ rxq # <<>>
            /\ rxq' = Tail(rxq)
            /\ LeaveSelect
            /\ UNCHANGED rxLagged
            /\ IF Head(rxq).kind = "UserQuery"
               THEN /\ pc' = "query"
                    /\ prompt_text' = Head(rxq).text
                    /\ hcalls' = <<Call("query", <<>>, "text", 0,
                                        QueryPrompt(Head(rxq).text))>>
                    /\ active' = active + 1
               ELSE /\ pc' = "select"
                    /\ UNCHANGED <<prompt_text, hcalls, active>>

\* run_query_response from the provider's reply to its return
QueryDone ==
    /\ UNCHANGED auxVars
    /\ pc = "query"
    /\ \E reply \in ModelReplies :
         LET r == RunPrompt("QueryResponse", reply)
         IN  /\ Publish(r.events)
             /\ result' = IF r.ok THEN "ok" ELSE "err"
    /\ pc' = "query_ret"
    /\ UNCHANGED <<recvDisabled, sigPending, sigRaised, envVars,
                   cycleVars, diffFailed, prompt_text, hcalls, active>>

\* run_query_response has returned to run_main: an Err is published as a
\* QueryResponse event, and the loop is back at select!
QueryReturn ==
    /\ UNCHANGED auxVars
    /\ pc = "query_ret"
    /\ Publish(IF result = "err"
               THEN <<Event("QueryResponse", "error", <<>>)>> ELSE <<>>)
    /\ pc' = "select"
    /\ result' = "none"
    /\ hcalls' = <<>>
    /\ active' = active - 1
    /\ prompt_text' = <<>>
    /\ UNCHANGED <<recvDisabled, sigPending, sigRaised, envVars, cycleVars,
                   diffFailed>>

\* (variant) the signal ends the loop wherever it is, handler or not
CtrlC_Interrupting ==
    /\ UNCHANGED auxVars
    /\ pc # "terminated"
    /\ sigRaised
    /\ pc' = "terminated"
    /\ sigPending' = FALSE
    /\ NoSend
    /\ UNCHANGED <<recvDisabled, sigRaised, envVars, cycleVars,
                   diffFailed, prompt_text, result, hcalls, active>>

\* select! takes the ctrl_c() branch: break
CtrlC ==
    /\ UNCHANGED auxVars
    /\ AtSelect
    /\ sigPending
    /\ pc' = "terminated"
    /\ sigPending' = FALSE
    /\ NoSend
    /\ UNCHANGED <<recvDisabled, sigRaised, envVars, cycleVars,
                   diffFailed, prompt_text, result, hcalls, active>>

(***************************************************************************)
(* The world around the loop.                                              *)
(***************************************************************************)
Running == pc # "terminated"

\* recv_task of a connection (ambient_server.rs:156-165): a text frame of a
\* client is published as a UserQuery
ClientQuery ==
    /\ UNCHANGED auxVars
    /\ Running
    /\ \E text \in QueryTexts : Publish(<<Event("UserQuery", "query", text)>>)
    /\ UNCHANGED <<loopVars, envVars, cycleVars, diffFailed, prompt_text, result,
                   hcalls, active>>

\* the diff batch of the cycle in progress is over
BatchDone == pc \in {"file", "rule", "model", "analyzed"}

\* somebody edits the working tree while the cycle analyses its batch.
\* (Edits at other times change no state of the model: every status and
\* diff command draws its output afresh.)
TreeEdit ==
    /\ UNCHANGED auxVars
    /\ BatchDone
    /\ treeVer < MaxEdits
    /\ treeVer' = treeVer + 1
    /\ NoSend
    /\ UNCHANGED <<loopVars, cycleVars, diffFailed, prompt_text, result,
                   hcalls, active>>

\* a ctrl_c() future exists, and with it a listener, only while the loop is
\* inside select!
ListenerRegistered == AtSelect

\* Ctrl-C is sent to the process.  The runtime's handler passes it to the
\* listeners registered at that moment; with none the signal is dropped.
Signal ==
    /\ UNCHANGED auxVars
    /\ Running
    /\ sigRaised' = TRUE
    /\ sigPending' = (sigPending \/ ListenerRegistered)
    /\ NoSend
    /\ UNCHANGED <<pc, recvDisabled, envVars, cycleVars, diffFailed,
                   prompt_text, result, hcalls, active>>

(***************************************************************************)
(* Specifications.                                                         *)
(***************************************************************************)
\* The loop with nothing but its timer: review cycles over listings of up to
\* MaxFiles files, the loop's own events coming back through rx.
NextCycle ==
    \/ TickStart
    \/ DiffStep
    \/ FileStep
    \/ RuleStep
    \/ ModelDone
    \/ AnalyzeReturn
    \/ CycleReturn
    \/ RecvEvent
    \/ TreeEdit

SpecCycle == Init /\ [][NextCycle]_vars

\* How many changed files a status listing names when the whole loop is
\* explored.
MaxLoopFiles == 1

\* The tick branch on a working tree with at most MaxLoopFiles changed files.
TickLoop == TickStart /\ Len(changed_files') <= MaxLoopFiles

\* The whole loop: cycles, client queries and Ctrl-C, on a working tree that
\* nobody edits while a cycle analyses it.
Next ==
    \/ TickLoop
    \/ DiffStep
    \/ FileStep
    \/ RuleStep
    \/ ModelDone
    \/ AnalyzeReturn
    \/ CycleReturn
    \/ RecvEvent
    \/ QueryDone
    \/ QueryReturn
    \/ CtrlC
    \/ ClientQuery
    \/ Signal

Spec == Init /\ [][Next]_vars

\* What the runtime guarantees: a handler that can take a step takes it,
\* the provider answers, the timer keeps firing, and select! picks every
\* branch that is ready again and again.
Fairness ==
    /\ WF_vars(DiffStep)
    /\ WF_vars(FileStep)
    /\ WF_vars(RuleStep)
    /\ WF_vars(ModelDone)
    /\ WF_vars(AnalyzeReturn)
    /\ WF_vars(CycleReturn)
    /\ WF_vars(QueryDone)
    /\ WF_vars(QueryReturn)
    /\ WF_vars(TickLoop)
    /\ SF_vars(RecvEvent)
    /\ SF_vars(CtrlC)

FairSpec == Spec /\ Fairness

(***************************************************************************)
(* Properties.                                                             *)
(***************************************************************************)
\* a handler body (perform_ambient_check or run_query_response) is running
HandlerRunning == pc \notin {"select", "terminated"}

\* the user queries among the unread events, oldest first
Waiting(q) == SelectSeq(q, LAMBDA e : e.kind = "UserQuery")

\* the model calls made so far for one changed file
CallsFor(path) == SelectSeq(hcalls, LAMBDA c : c.path = path)

\* C1: at most one handler body runs at a time; while one runs the loop
\* takes no tick, no broadcast event and no cancellation, and starts no
\* second handler.
C1_OneHandlerAtATime ==
    /\ [](active <= 1 /\ (active = 1 <=> HandlerRunning))
    /\ [][HandlerRunning =>
            /\ ~TickStart
            /\ ~RecvEvent
            /\ ~CtrlC
            /\ active' <= active]_vars

\* a cycle is waiting for the model while a user query is unread and Ctrl-C
\* has been sent
C1_Witness ==
    /\ pc = "model"
    /\ sigRaised
    /\ Waiting(rxq) # <<>>

\* C2: a UserQuery that is unread while a handler runs is not lost, whatever
\* the handler publishes: every step of the handler leaves the waiting
\* queries as they are.
C2_QueryNeverLost ==
    [][/\ HandlerRunning
       /\ \A i \in DOMAIN sent' : sent'[i].kind # "UserQuery"
       => Waiting(rxq') = Waiting(rxq)]_vars

\* C3 as stated: the whole prompt of the one model call is the query text.
C3_PromptIsQueryText ==
    pc \in {"query", "query_ret"} =>
        /\ Len(hcalls) = 1
        /\ hcalls[1].prompt = prompt_text

\* C3: a UserQuery taken by the scheduler gets exactly one model call, whose
\* whole prompt is the query text without its leading and trailing
\* whitespace; the outcome is published as QueryResponse events, a failure
\* too, and the scheduler is back in its select afterwards.
C3_QueryHandled ==
    /\ [](pc \in {"query", "query_ret"} =>
            /\ Len(hcalls) = 1
            /\ hcalls[1].prompt = Trim(prompt_text))
    /\ [][/\ (pc = "select" /\ pc' = "query" =>
                /\ rxq # <<>>
                /\ Head(rxq).kind = "UserQuery"
                /\ prompt_text' = Head(rxq).text)
          /\ (pc = "query" /\ pc' # pc =>
                /\ pc' = "query_ret"
                /\ Len(sent') = 1
                /\ sent'[1].kind = "QueryResponse"
                /\ (result' = "err" <=> sent'[1].tag # "result")
                /\ hcalls' = hcalls)
          /\ (pc = "query_ret" /\ pc' # pc =>
                /\ pc' = "select"
                /\ sent' = IF result = "err"
                           THEN <<Event("QueryResponse", "error", <<>>)>>
                           ELSE <<>>)]_vars

\* the call for the query " a " has failed
C3_Witness ==
    /\ pc = "query_ret"
    /\ result = "err"
    /\ prompt_text = <<" ", "a", " ">>
    /\ hcalls[1].prompt = <<"a">>

\* C4: once Ctrl-C has been sent, at select or during a handler, the
\* scheduler eventually is Terminated.
C4_CancelTerminates == sigRaised ~> (pc = "terminated")

\* C5: Terminated is terminal and no handler starts after it; the
\* cancellation is taken only between handlers, never while one runs.
C5_CancelBetweenHandlers ==
    /\ [](pc = "terminated" => active = 0 /\ hcalls = <<>>)
    /\ [][/\ (pc = "terminated" => pc' = "terminated" /\ active' = 0)
          /\ (HandlerRunning => pc' # "terminated")
          /\ (pc' = "terminated" /\ pc # "terminated" => pc = "select" /\ sigPending)]_vars

\* Ctrl-C has been sent while a handler answers a query
C5_Witness ==
    /\ pc = "query"
    /\ sigRaised
    /\ ~sigPending

\* the titles of the calls a file with a captured diff is due
DueTitles ==
    IF reviews = <<>> THEN DefaultTitles
    ELSE [i \in 1..Len(reviews) |-> reviews[i].name]

\* C6: a failed model call of a cycle is published as an Analysis event and
\* the loop goes on with the next rule of the same file; a file is left
\* only after its last rule, with one call made for each rule when its diff
\* was captured; and a cycle that has entered its analysis loop returns
\* only after its last file, with Ok.
C6_FailureGoesOn ==
    /\ [](pc = "cycle_ret" /\ fi > 0 =>
            /\ result = "ok"
            /\ fi = Len(changed_files) + 1)
    /\ [](pc = "rule" /\ changed_files[fi] \in DOMAIN all_diffs /\ ri > Len(DueTitles) =>
            LET calls == CallsFor(changed_files[fi])
            IN  [i \in 1..Len(calls) |-> calls[i].title] = DueTitles)
    /\ [][/\ (pc = "analyzed" /\ result = "err" /\ pc' # pc =>
                /\ sent' = <<Event("Analysis", "error", <<>>)>>
                /\ pc' = "rule"
                /\ fi' = fi
                /\ ri' = ri + 1
                /\ reviews' = reviews
                /\ changed_files' = changed_files
                /\ hcalls' = hcalls)
          /\ (pc = "rule" /\ pc' = "file" =>
                /\ fi' = fi + 1
                /\ IF reviews = <<>>
                   THEN ri > Len(DefaultTitles) \/ changed_files[fi] \notin DOMAIN all_diffs
                   ELSE ri > Len(reviews))]_vars

\* a call has failed with rules and files still to go
C6_Witness ==
    /\ pc = "analyzed"
    /\ result = "err"
    /\ ri < Len(reviews)
    /\ fi < Len(changed_files)

\* C7: when the status command fails the cycle ends before any diff, model
\* call or event; run_main publishes the failure as an Analysis event and is
\* back in its select, where the next tick starts a cycle.
C7_StatusFailure ==
    /\ [](pc = "cycle_ret" /\ result = "status_failed" =>
            /\ hcalls = <<>>
            /\ sent = <<>>
            /\ di = 0
            /\ fi = 0)
    /\ [][pc = "cycle_ret" /\ result # "ok" /\ pc' # pc =>
            /\ pc' = "select"
            /\ sent' = <<Event("Analysis", "cycle_error", <<>>)>>]_vars
    /\ [](pc = "select" => ENABLED TickStart)

\* the status command of a cycle has failed
C7_Witness ==
    /\ pc = "cycle_ret"
    /\ result = "status_failed"

\* C8: after a diff command of the cycle has failed no model call is made
\* in that cycle, and the cycle returns an error.
C8_DiffFailureAborts ==
    diffFailed =>
        /\ hcalls = <<>>
        /\ (pc = "cycle_ret" => result # "ok")

\* C9: no model call of a cycle starts before its last diff command has
\* finished, and the content of every prompt is as of the diff batch.
C9_PromptFromBatch ==
    /\ (hcalls # <<>> /\ pc # "query" /\ pc # "query_ret" => di > Len(changed_files))
    /\ \A i \in DOMAIN hcalls : hcalls[i].ver = 0

\* C10: when the analysis of a file ends, the model calls made for it are
\* one per rule the engine returned, in the engine's order.
C10_OneCallPerRule ==
    pc = "rule" /\ reviews # <<>> /\ ri > Len(reviews) =>
        LET calls == CallsFor(changed_files[fi])
        IN  [i \in 1..Len(calls) |-> calls[i].title] =
            [i \in 1..Len(reviews) |-> reviews[i].name]

\* C11: a non-excluded changed file that no enabled rule matches gets
\* exactly two model calls, the syntax prompt and then the security prompt,
\* before the cycle leaves it.
C11_DefaultPairAlways ==
    [][pc = "rule" /\ pc' = "file" /\ reviews = <<>> =>
          LET calls == CallsFor(changed_files[fi])
          IN  [i \in 1..Len(calls) |-> calls[i].title] = DefaultTitles]_vars

\* the titles of the model calls made so far for one changed file
TitlesFor(path) ==
    [i \in 1..Len(CallsFor(path)) |-> CallsFor(path)[i].title]

\* a cycle over a.rs and b.txt, both with a captured diff and no project
\* file, has gone through its last file
NoProjectFileCycleDone ==
    /\ pc = "cycle_ret"
    /\ fi > Len(changed_files)
    /\ project_config = DefaultConfig
    /\ changed_files \in {<<PathA, PathB>>, <<PathB, PathA>>}
    /\ DOMAIN all_diffs = {PathA, PathB}

\* C12 as stated: without a project file a cycle over a.rs and b.txt, both
\* with a diff, makes two calls per file, a syntax check and then a
\* security scan.
C12_TwoCallsPerFile ==
    NoProjectFileCycleDone =>
        \A f \in {PathA, PathB} :
            /\ Len(TitlesFor(f)) = 2
            /\ TitlesFor(f)[1] \in {"default_syntax", "syntax"}
            /\ TitlesFor(f)[2] \in {"default_security", "security"}

\* C12: without a project file a cycle over a.rs and b.txt, both with a
\* diff, makes the calls of the built-in rules: syntax, security and
\* performance for a.rs, in that order, and security alone for b.txt.
C12_BuiltInRules ==
    NoProjectFileCycleDone =>
        /\ TitlesFor(PathA) = <<"syntax", "security", "performance">>
        /\ TitlesFor(PathB) = <<"security">>

\* such a cycle has ended
C12_Witness ==
    /\ NoProjectFileCycleDone
    /\ Len(hcalls) = 4

(***************************************************************************)
(* The rule engine on its own: get_reviews_for_file applied to rule sets.  *)
(***************************************************************************)
\* How many rules a rule set under test declares.
MaxRules == 3

\* the names of the rules under test, in declaration order
RuleNames == <<"r1", "r2", "r3", "r4", "r5">>

\* what a rule under test may declare besides its name
RuleShapes ==
    [ file_patterns : {<<PatStar>>, <<PatRs>>, <<PatTs, PatRs>>},
      priority : {1, 2},
      enabled : BOOLEAN ]

\* the rule sets under test
RuleSets ==
    { [i \in 1..Len(shapes) |->
          [ name |-> RuleNames[i], file_patterns |-> shapes[i].file_patterns,
            priority |-> shapes[i].priority, enabled |-> shapes[i].enabled ]] :
      shapes \in UNION {[1..m -> RuleShapes] : m \in 0..MaxRules} }

InitRules ==
    /\ InitLoop
    /\ InitNoServer
    /\ InitChannel
    /\ InitNoProjectFile
    /\ ret = <<>>
    /\ \E rs \in RuleSets, f \in Paths :
         arg = [ fn |-> "get_reviews_for_file",
                 config |-> [enabled |-> TRUE, exclude_patterns |-> <<>>, reviews |-> rs],
                 file_path |-> f ]

\* config.get_reviews_for_file(file_path)
CallGetReviews ==
    /\ arg.fn = "get_reviews_for_file"
    /\ ret = <<>>
    /\ ret' = <<get_reviews_for_file(arg.config, arg.file_path)>>
    /\ UNCHANGED <<schedVars, arg, gwVars, chanVars, diskVars>>

SpecRules == InitRules /\ [][CallGetReviews]_vars

\* get_reviews_for_file has returned
RulesReturned == arg.fn = "get_reviews_for_file" /\ ret # <<>>

\* the rule declared at place i is enabled and one of its patterns matches
RuleApplies(i) ==
    LET r == arg.config.reviews[i]
    IN  /\ r.enabled
        /\ \E k \in 1..Len(r.file_patterns) : MatchesPattern(arg.file_path, r.file_patterns[k])

\* the place in the declaration of the rule returned at place j
DeclaredAt(j) ==
    CHOOSE i \in 1..Len(arg.config.reviews) : arg.config.reviews[i] = ret[1][j]

\* C13: get_reviews_for_file returns exactly the enabled rules with a
\* matching pattern, each once, by non-increasing priority, rules of equal
\* priority in declaration order.
C13_RulesFilteredAndSorted ==
    RulesReturned =>
        LET declared == arg.config.reviews
            out == ret[1]
        IN  /\ \A j \in 1..Len(out) :
                 \E i \in 1..Len(declared) : declared[i] = out[j] /\ RuleApplies(i)
            /\ \A i \in 1..Len(declared) :
                 Cardinality({j \in 1..Len(out) : out[j] = declared[i]})
                     = IF RuleApplies(i) THEN 1 ELSE 0
            /\ \A j, k \in 1..Len(out) :
                 j < k =>
                    \/ out[j].priority > out[k].priority
                    \/ /\ out[j].priority = out[k].priority
                       /\ DeclaredAt(j) < DeclaredAt(k)

\* of three declared rules the second is left out and the other two tie
C13_Witness ==
    /\ RulesReturned
    /\ Len(arg.config.reviews) = 3
    /\ Len(ret[1]) = 2
    /\ ret[1][1].priority = ret[1][2].priority
    /\ DeclaredAt(1) = 1
    /\ DeclaredAt(2) = 3

(***************************************************************************)
(* The pattern matcher on its own: matches_patterns applied to one pattern *)
(* and one path.                                                           *)
(***************************************************************************)
\* the patterns under test: those of the default configuration
TestPatterns ==
    { PatStar, PatRs, PatTs, PatJs, PatGo, PatCpp, PatMinJs, PatTarget,
      PatNodeModules, PatGit }

\* the paths under test, beside Paths: "ars", "x.min.js", "target",
\* "targets.rs", ".git/c", ".github/w.ts"
TestPaths ==
    Paths \cup
    { <<"a", "r", "s">>,
      <<"x", ".", "m", "i", "n", ".", "j", "s">>,
      <<"t", "a", "r", "g", "e", "t">>,
      <<"t", "a", "r", "g", "e", "t", "s", ".", "r", "s">>,
      <<".", "g", "i", "t", "/", "c">>,
      <<".", "g", "i", "t", "h", "u", "b", "/", "w", ".", "t", "s">> }

InitMatch ==
    /\ InitLoop
    /\ InitNoServer
    /\ InitChannel
    /\ InitNoProjectFile
    /\ ret = <<>>
    /\ \E p \in TestPatterns, f \in TestPaths :
         arg = [fn |-> "matches_patterns", pattern |-> p, file_path |-> f]

\* self.matches_patterns(file_path, &[pattern])
CallMatchesPatterns ==
    /\ arg.fn = "matches_patterns"
    /\ ret = <<>>
    /\ ret' = <<matches_patterns(arg.file_path, <<arg.pattern>>)>>
    /\ UNCHANGED <<schedVars, arg, gwVars, chanVars, diskVars>>

SpecMatch == InitMatch /\ [][CallMatchesPatterns]_vars

\* C14: the matcher's answer is the documented one: * matches every path,
\* *.ext exactly the paths that end in .ext, and prefix/** exactly the
\* paths that start with prefix/.
C14_DocumentedPatterns ==
    arg.fn = "matches_patterns" /\ ret # <<>> =>
        LET p == arg.pattern
            f == arg.file_path
        IN  /\ (p = <<"*">> => ret[1])
            /\ (Len(p) > 2 /\ StartsWith(p, <<"*", ".">>) =>
                  (ret[1] <=> EndsWith(f, Tail(p))))
            /\ (Len(p) > 3 /\ EndsWith(p, <<"/", "*", "*">>) =>
                  (ret[1] <=> StartsWith(f, SubSeq(p, 1, Len(p) - 2))))

\* a path matches one of the exclude patterns of the cycle's configuration
Excluded(path) == matches_patterns(path, project_config.exclude_patterns)

\* C15: a changed file that matches an exclude pattern is passed over at the
\* head of the analysis loop: the step publishes the skip notice, runs no
\* rule matching and makes no model call, and no model call of the cycle is
\* is ever started for such a file.
C15_ExcludedSkipped ==
    /\ [](pc = "model" =>
            /\ hcalls[Len(hcalls)].path = changed_files[fi]
            /\ ~Excluded(changed_files[fi]))
    /\ [][/\ pc = "file"
          /\ fi <= Len(changed_files)
          /\ Excluded(changed_files[fi])
          /\ (pc' # pc \/ fi' # fi)
          => /\ pc' = "file"
             /\ fi' = fi + 1
             /\ reviews' = <<>>
             /\ hcalls' = hcalls
             /\ sent' = <<Event("Analysis", "skip", changed_files[fi])>>]_vars

\* the cycle has just passed over an excluded first file and goes on
C15_Witness ==
    /\ pc = "file"
    /\ fi = 2
    /\ Len(changed_files) = 2
    /\ Excluded(changed_files[1])
    /\ sent = <<Event("Analysis", "skip", changed_files[1])>>

\* the last step was a model call that ended on an Err item of its stream
StreamJustFailed ==
    /\ pc \in {"analyzed", "query_ret"}
    /\ result = "err"
    /\ Len(sent) = 1
    /\ sent[1].tag = "stream_error"

\* C16: a model call whose stream yields an Err item publishes one error
\* event and no result; the caller it returns to publishes no second error
\* event for it.
C16_OneErrorEvent ==
    [][/\ (pc \in {"model", "query"} /\ StreamJustFailed' =>
             sent'[1].kind = (IF pc = "model" THEN "Analysis" ELSE "QueryResponse"))
       /\ (StreamJustFailed /\ pc' # pc => sent' = <<>>)]_vars

(***************************************************************************)
(* The streaming consumer on its own: run_analysis_prompt and              *)
(* run_query_response applied to one reply of the provider.                *)
(***************************************************************************)
\* How many items a response stream under test yields.
MaxStream == 3

\* the text fragments a stream under test may carry
Fragments == {"x", "y"}

\* the streams under test: fragments, "C", "E" and "O" in any order
TestStreams == UNION {[1..n -> Fragments \cup {"C", "E", "O"}] : n \in 0..MaxStream}

InitStream ==
    /\ InitLoop
    /\ InitNoServer
    /\ InitChannel
    /\ InitNoProjectFile
    /\ ret = <<>>
    /\ \E kind \in {"Analysis", "QueryResponse"}, s \in TestStreams :
         arg = [fn |-> "run_prompt", kind |-> kind, reply |-> [open |-> TRUE, stream |-> s]]

\* run_analysis_prompt(..).await / run_query_response(..).await
CallRunPrompt ==
    /\ arg.fn = "run_prompt"
    /\ ret = <<>>
    /\ ret' = <<RunPrompt(arg.kind, arg.reply)>>
    /\ UNCHANGED <<schedVars, arg, gwVars, chanVars, diskVars>>

SpecStream == InitStream /\ [][CallRunPrompt]_vars

\* C17: a stream of fragments f1..fn followed by Completed publishes
\* exactly one event, the result whose text is f1..fn in arrival order, and
\* returns Ok, whatever follows Completed in the stream.
C17_FragmentsConcatenated ==
    arg.fn = "run_prompt" /\ ret # <<>> =>
        LET s == arg.reply.stream
        IN  \A n \in 1..Len(s) :
               (s[n] = "C" /\ \A i \in 1..(n - 1) : s[i] \in Fragments) =>
                  /\ ret[1].ok
                  /\ ret[1].events = <<Event(arg.kind, "result", SubSeq(s, 1, n - 1))>>

\* a fragment, Completed, and an error item after it
C17_Witness ==
    /\ arg.fn = "run_prompt"
    /\ ret # <<>>
    /\ arg.reply.stream = <<"x", "C", "E">>
    /\ ret[1].events[1].text = <<"x">>

(***************************************************************************)
(* run_server: the port loop (ambient_server.rs:80-95).                    *)
(***************************************************************************)
\* u16: the values of a port number
PortMod == 65536

\* `try_port < port + 10`
PortRetries == 10

\* How many ports above the configured one may be occupied.
MaxSpan == 11

\* the configured ports under test: the default, and one near the top of u16
TestPorts == {38080, 65530}

\* the ports from the configured one up to MaxSpan above it
Span(p) == {(p + i) % PortMod : i \in 0..MaxSpan}

InitServer ==
    /\ InitLoop
    /\ InitChannel
    /\ InitNoProjectFile
    /\ arg = NoArg
    /\ ret = <<>>
    /\ port \in TestPorts
    /\ busy \in SUBSET Span(port)
    /\ try_port = port
    /\ gw = "bind"

\* run_server's failure brought down the whole process
BindStep_Fatal ==
    /\ gw = "bind"
    /\ UNCHANGED <<arg, ret, port, busy, chanVars, diskVars>>
    /\ IF try_port \notin busy
       THEN /\ gw' = "serving"
            /\ UNCHANGED <<try_port, schedVars>>
       ELSE IF try_port < (port + PortRetries) % PortMod
            THEN /\ try_port' = try_port + 1
                 /\ UNCHANGED <<gw, schedVars>>
            ELSE /\ gw' = "stopped"
                 /\ pc' = "terminated"
                 /\ UNCHANGED <<try_port, recvDisabled, sigPending, sigRaised,
                                rxq, rxLagged, treeVer, project_config,
                                changed_files, all_diffs, di, fi, reviews, ri,
                                review_index, sent, diffFailed, prompt_text,
                                result, hcalls, active>>

\* one turn of the loop: TcpListener::bind(127.0.0.1:try_port), and on a
\* failure the guard `try_port < port + 10`.  port + 10 is u16 arithmetic:
\* past 65535 it panics in a build with overflow checks and wraps in a
\* build without.
BindStep ==
    /\ gw = "bind"
    /\ UNCHANGED <<schedVars, arg, ret, port, busy, chanVars, diskVars>>
    /\ IF try_port \notin busy
       THEN /\ gw' = "serving"
            /\ UNCHANGED try_port
       ELSE IF port + PortRetries >= PortMod
       THEN \E checks \in BOOLEAN :
              IF checks
              THEN /\ gw' = "panicked"
                   /\ UNCHANGED try_port
              ELSE IF try_port < (port + PortRetries) % PortMod
                   THEN /\ try_port' = try_port + 1
                        /\ UNCHANGED gw
                   ELSE /\ gw' = "stopped"
                        /\ UNCHANGED try_port
       ELSE IF try_port < port + PortRetries
            THEN /\ try_port' = try_port + 1
                 /\ UNCHANGED gw
            ELSE /\ gw' = "stopped"
                 /\ UNCHANGED try_port

SpecServer == InitServer /\ [][BindStep]_vars

\* the ports P .. P+9 of the configured port P
FirstTen == {port + i : i \in 0..9}

\* C18: for a configured port P with P+9 a port number, the gateway tries no
\* port outside P .. P+9, serves on the lowest of them that is free, and
\* stops without a port exactly when all ten are occupied.
C18_LowestFreeOfTen ==
    gw # "none" /\ port + 9 < PortMod =>
        /\ try_port \in FirstTen
        /\ (gw = "serving" =>
              /\ try_port \notin busy
              /\ \A q \in FirstTen : q < try_port => q \in busy)
        /\ (gw \in {"stopped", "panicked"} => FirstTen \subseteq busy)
        /\ (FirstTen \subseteq busy /\ gw # "bind" => gw = "stopped")

(***************************************************************************)
(* run_main with the server task it spawns (ambient.rs:60-101): the loop's *)
(* timer cycles interleaved with the port loop of run_server.  No client   *)
(* is connected, so no query arrives.                                      *)
(***************************************************************************)
\* the server task finds every port free, or every port occupied
InitSpawned ==
    /\ InitLoop
    /\ InitChannel
    /\ InitNoProjectFile
    /\ arg = NoArg
    /\ ret = <<>>
    /\ port \in TestPorts
    /\ busy \in {{}, Span(port)}
    /\ try_port = port
    /\ gw = "bind"

NextWatcher ==
    \/ TickLoop
    \/ DiffStep
    \/ FileStep
    \/ RuleStep
    \/ ModelDone
    \/ AnalyzeReturn
    \/ CycleReturn
    \/ RecvEvent
    \/ BindStep

SpecWatcher == InitSpawned /\ [][NextWatcher]_vars

\* run_server returned without a listener
ServerStopped == gw = "stopped"

\* C19: the step by which the server task gives up changes nothing of the
\* loop, and with the server stopped the loop is never terminated and at each
\* select! the timer branch can start the next cycle.
C19_LoopOutlivesServer ==
    /\ [][gw' # gw => UNCHANGED schedVars]_vars
    /\ [](ServerStopped =>
            /\ pc # "terminated"
            /\ (AtSelect => ENABLED TickLoop))

\* the server has stopped, and a cycle of the loop has a model call in
\* progress and earlier results on the bus
C19_Witness ==
    /\ ServerStopped
    /\ pc = "model"
    /\ rxq # <<>>

(***************************************************************************)
(* The broadcast channel with two receivers (ambient.rs:61,                *)
(* ambient_server.rs:123,146-152): one buffer of the last Capacity events  *)
(* shared by all receivers, and a read position per receiver.              *)
(***************************************************************************)
\* How many events are sent on the channel.
MaxPublished == 4

\* the kinds of event sent: by the loop, and by a connection's recv_task
SentKinds == {"Analysis", "UserQuery"}

\* the index of the oldest event the buffer still holds
Oldest(sentSoFar) ==
    IF Len(sentSoFar) > Capacity THEN Len(sentSoFar) - Capacity + 1 ELSE 1

\* the unread backlog of a receiver: the events sent since its position
Backlog(s) == Len(published) - sub[s].pos + 1

InitBus ==
    /\ InitLoop
    /\ InitNoServer
    /\ InitChannel
    /\ InitNoProjectFile
    /\ arg = NoArg
    /\ ret = <<>>

\* a send that overflowed one receiver's backlog dropped the oldest unread
\* event of every receiver
BusSend_SharedDrop ==
    /\ Len(published) < MaxPublished
    /\ \E kind \in SentKinds : published' = Append(published, kind)
    /\ IF \E s \in Subs : sub[s].state = "open" /\ Backlog(s) >= Capacity
       THEN sub' = [s \in Subs |->
                      IF sub[s].state = "open" /\ sub[s].pos <= Len(published)
                      THEN [sub[s] EXCEPT !.pos = @ + 1]
                      ELSE sub[s]]
       ELSE UNCHANGED sub
    /\ UNCHANGED <<schedVars, arg, ret, gwVars, diskVars, conn>>

\* tx.send(event): the event takes the next slot of the buffer, overwriting
\* the oldest one when the buffer is full; no receiver is consulted
BusSend ==
    /\ Len(published) < MaxPublished
    /\ \E kind \in SentKinds : published' = Append(published, kind)
    /\ UNCHANGED <<schedVars, arg, ret, gwVars, diskVars, sub, conn>>

\* state.tx.subscribe() of a new connection: it receives what is sent from
\* now on
BusSubscribe ==
    /\ sub["client"].state = "none"
    /\ sub' = [sub EXCEPT !["client"] =
                 [state |-> "open", pos |-> Len(published) + 1,
                  first |-> Len(published) + 1, lost |-> 0, got |-> <<>>]]
    /\ UNCHANGED <<schedVars, arg, ret, gwVars, diskVars, published, conn>>

\* rx.recv().await of receiver s completes.  An event at its position that
\* was overwritten gives Err(Lagged(n)) and moves the position to the oldest
\* event held: the loop's select! goes on to its next turn, the connection's
\* send_task leaves its `while let Ok(..)`.
BusRecv(s) ==
    /\ sub[s].state = "open"
    /\ sub[s].pos <= Len(published)
    /\ IF sub[s].pos < Oldest(published)
       THEN sub' = [sub EXCEPT ![s] =
                      [@ EXCEPT !.lost = @ + (Oldest(published) - sub[s].pos),
                                !.pos = Oldest(published),
                                !.state = IF s = "client" THEN "ended" ELSE "open"]]
       ELSE sub' = [sub EXCEPT ![s] =
                      [@ EXCEPT !.got = Append(@, sub[s].pos),
                                !.pos = @ + 1]]
    /\ UNCHANGED <<schedVars, arg, ret, gwVars, diskVars, published, conn>>

RecvMain == BusRecv("main")

RecvClient == BusRecv("client")

NextBus ==
    \/ BusSend
    \/ BusSubscribe
    \/ RecvMain
    \/ RecvClient

SpecBus == InitBus /\ [][NextBus]_vars

\* the events from index a to index b
Run(a, b) == [i \in 1..(b - a + 1) |-> a + i - 1]

\* C20: a send is possible whatever the receivers have read; a receiver
\* loses events only in a step of its own taken with more than Capacity
\* events unread, and what it loses are the oldest of them; a step of one
\* receiver changes nothing of the other; so a receiver that never fell
\* behind has received every event sent since it subscribed, in order, up to
\* its position, however far the other one fell behind.
C20_ReceiversIndependent ==
    /\ [](Len(published) < MaxPublished => ENABLED BusSend)
    /\ [](\A s \in Subs :
            /\ sub[s].lost = 0 => sub[s].got = Run(sub[s].first, sub[s].pos - 1)
            /\ \A i \in 1..Len(sub[s].got) :
                 /\ sub[s].got[i] \in sub[s].first..Len(published)
                 /\ i > 1 => sub[s].got[i - 1] < sub[s].got[i])
    /\ [][\A s \in Subs :
            /\ sub'[s].lost > sub[s].lost =>
                 /\ Backlog(s) > Capacity
                 /\ sub'[s].pos = Oldest(published)
                 /\ \A t \in Subs \ {s} : sub'[t] = sub[t]
            /\ sub'[s] # sub[s] =>
                 /\ published' = published
                 /\ \A t \in Subs \ {s} : sub'[t] = sub[t]]_vars

\* the connection's receiver fell behind and lost events, and the loop's
\* receiver has received every event sent
C20_Witness ==
    /\ sub["client"].lost > 0
    /\ Len(published) = MaxPublished
    /\ sub["main"].got = Run(1, MaxPublished)

\* C21: a connection's relay that fell behind and lost its oldest unread
\* events is still relaying: the overflow does not end it.
C21_OverflowKeepsRelay ==
    sub["client"].lost > 0 => sub["client"].state = "open"

(***************************************************************************)
(* websocket: the connections of the gateway (ambient_server.rs:121-172).  *)
(* Each connection has its own receiver of the channel, the frames sent to *)
(* its client so far, and its two tasks.                                   *)
(***************************************************************************)
\* How many events are sent on the channel while connections are served.
MaxRelayed == 3

\* the kinds of event the loop publishes
LoopKinds == {"Analysis", "QueryResponse"}

\* a frame sent to the client: the kind of its event, and whether the event
\* came from the channel
Frame(kind, relayed) == [kind |-> kind, relayed |-> relayed]

InitConn ==
    /\ InitLoop
    /\ InitNoServer
    /\ InitChannel
    /\ InitNoProjectFile
    /\ arg = NoArg
    /\ ret = <<>>

connOther == <<schedVars, arg, ret, gwVars, diskVars, sub>>

\* websocket(socket, state) starts: state.tx.subscribe()
Connect(c) ==
    /\ conn[c].pc = "none"
    /\ conn' = [conn EXCEPT ![c] = [@ EXCEPT !.pc = "welcome",
                                             !.pos = Len(published) + 1]]
    /\ UNCHANGED <<connOther, published>>

\* sender.send(welcome_msg): sent, or the client is gone and websocket
\* returns
SendWelcome(c) ==
    /\ conn[c].pc = "welcome"
    /\ \E ok \in BOOLEAN :
         conn' = [conn EXCEPT ![c] =
                    IF ok
                    THEN [@ EXCEPT !.pc = "root",
                                   !.frames = Append(@, Frame("System", FALSE))]
                    ELSE [@ EXCEPT !.pc = "closed"]]
    /\ UNCHANGED <<connOther, published>>

\* sender.send(project_root_msg), and on success the two tasks are spawned
SendRoot(c) ==
    /\ conn[c].pc = "root"
    /\ \E ok \in BOOLEAN :
         conn' = [conn EXCEPT ![c] =
                    IF ok
                    THEN [@ EXCEPT !.pc = "relay",
                                   !.frames = Append(@, Frame("ProjectRoot", FALSE)),
                                   !.send_task = "running",
                                   !.recv_task = "running"]
                    ELSE [@ EXCEPT !.pc = "closed"]]
    /\ UNCHANGED <<connOther, published>>

\* the relay was started together with the subscription
Relay_Early(c) ==
    /\ conn[c].pc \in {"welcome", "root", "relay"}
    /\ conn[c].send_task # "done"
    /\ conn[c].pos <= Len(published)
    /\ conn[c].pos >= Oldest(published)
    /\ conn' = [conn EXCEPT ![c] =
                 [@ EXCEPT !.pos = @ + 1,
                           !.frames = Append(@, Frame(published[conn[c].pos], TRUE))]]
    /\ UNCHANGED <<connOther, published>>

\* one turn of send_task: rx.recv().await gives the next event, which is
\* sent as a frame; Err(Lagged) or a failed send ends the task
Relay(c) ==
    /\ conn[c].send_task = "running"
    /\ conn[c].pos <= Len(published)
    /\ IF conn[c].pos < Oldest(published)
       THEN conn' = [conn EXCEPT ![c] = [@ EXCEPT !.send_task = "done"]]
       ELSE \E ok \in BOOLEAN :
              conn' = [conn EXCEPT ![c] =
                         IF ok
                         THEN [@ EXCEPT !.pos = @ + 1,
                                        !.frames = Append(@,
                                            Frame(published[conn[c].pos], TRUE))]
                         ELSE [@ EXCEPT !.pos = @ + 1, !.send_task = "done"]]
    /\ UNCHANGED <<connOther, published>>

\* one turn of recv_task: a text message of the client is published as a
\* UserQuery
ClientText(c) ==
    /\ conn[c].recv_task = "running"
    /\ Len(published) < MaxRelayed
    /\ published' = Append(published, "UserQuery")
    /\ UNCHANGED <<connOther, conn>>

\* receiver.next() gives None or an error: recv_task ends
ClientGone(c) ==
    /\ conn[c].recv_task = "running"
    /\ conn' = [conn EXCEPT ![c] = [@ EXCEPT !.recv_task = "done"]]
    /\ UNCHANGED <<connOther, published>>

\* websocket returns when a task finished, and leaves the other running
Join_NoAbort(c) ==
    /\ conn[c].pc = "relay"
    /\ \/ conn[c].send_task = "done"
       \/ conn[c].recv_task = "done"
    /\ conn' = [conn EXCEPT ![c] = [@ EXCEPT !.pc = "closed"]]
    /\ UNCHANGED <<connOther, published>>

\* select! of websocket: one of the tasks finished, the other is aborted and
\* websocket returns
Join(c) ==
    /\ conn[c].pc = "relay"
    /\ \/ /\ conn[c].send_task = "done"
          /\ conn' = [conn EXCEPT ![c] =
                        [@ EXCEPT !.pc = "closed",
                                  !.recv_task = IF @ = "running" THEN "aborted" ELSE @]]
       \/ /\ conn[c].recv_task = "done"
          /\ conn' = [conn EXCEPT ![c] =
                        [@ EXCEPT !.pc = "closed",
                                  !.send_task = IF @ = "running" THEN "aborted" ELSE @]]
    /\ UNCHANGED <<connOther, published>>

\* the loop publishes an event
LoopSend ==
    /\ Len(published) < MaxRelayed
    /\ \E kind \in LoopKinds : published' = Append(published, kind)
    /\ UNCHANGED <<connOther, conn>>

Connecting == \E c \in Conns : Connect(c)
Welcoming == \E c \in Conns : SendWelcome(c)
Rooting == \E c \in Conns : SendRoot(c)
Relaying == \E c \in Conns : Relay(c)
ClientTexting == \E c \in Conns : ClientText(c)
ClientLeaving == \E c \in Conns : ClientGone(c)
Joining == \E c \in Conns : Join(c)

NextConn ==
    \/ Connecting
    \/ Welcoming
    \/ Rooting
    \/ Relaying
    \/ ClientTexting
    \/ ClientLeaving
    \/ Joining
    \/ LoopSend

SpecConn == InitConn /\ [][NextConn]_vars

\* C22: of the frames sent on a connection the first is the System welcome
\* and the second the ProjectRoot, neither taken from the channel, and every
\* frame relayed from the channel comes after these two.
C22_WelcomeThenRoot ==
    \A c \in Conns :
        LET f == conn[c].frames
        IN  /\ Len(f) >= 1 => f[1] = Frame("System", FALSE)
            /\ Len(f) >= 2 => f[2] = Frame("ProjectRoot", FALSE)
            /\ \A i \in 1..Len(f) : f[i].relayed => i > 2

\* a connection has sent its two opening frames and then relayed an event
\* of the channel as its third frame
C22_Witness ==
    \E c \in Conns :
        /\ Len(conn[c].frames) = 3
        /\ conn[c].frames[3].relayed
        /\ Len(published) >= 2

\* the kinds of event a client is sent
ClientKinds == {"Analysis", "System", "QueryResponse", "ProjectRoot"}

\* C23: every frame sent to a client carries an Analysis, System,
\* QueryResponse or ProjectRoot event, never a UserQuery.
C23_NoUserQueryFrame ==
    \A c \in Conns :
        \A i \in 1..Len(conn[c].frames) : conn[c].frames[i].kind \in ClientKinds

\* the tasks of connection c that are running
RunningTasks(c) ==
    {t \in {"send_task", "recv_task"} : conn[c][t] = "running"}

\* C24: a connection whose websocket returned has no task running; a task
\* is aborted only in a step of its own connection, taken when the other
\* task of that connection had finished, and that step changes nothing of
\* the other connections; and once one task of a connection has finished
\* the step that aborts the other is possible.
C24_FirstFinishedCancelsOther ==
    /\ [](\A c \in Conns :
            /\ conn[c].pc = "closed" => RunningTasks(c) = {}
            /\ (conn[c].pc = "relay" /\ RunningTasks(c) # {"send_task", "recv_task"}
                  => ENABLED Join(c)))
    /\ [][\A c \in Conns :
            \A t \in {"send_task", "recv_task"} :
                conn'[c][t] = "aborted" /\ conn[c][t] # "aborted" =>
                    /\ \E u \in {"send_task", "recv_task"} \ {t} : conn[c][u] = "done"
                    /\ \A d \in Conns \ {c} : conn'[d] = conn[d]]_vars

\* one connection is over, its inbound relay cancelled after its outbound
\* relay finished, and the other connection has both relays running
C24_Witness ==
    /\ conn["c1"].pc = "closed"
    /\ conn["c1"].send_task = "done"
    /\ conn["c1"].recv_task = "aborted"
    /\ RunningTasks("c2") = {"send_task", "recv_task"}

(***************************************************************************)
(* The cycles of the loop on a project whose .ambient/config.toml is       *)
(* edited at any time (ambient.rs:256-267,                                 *)
(* ambient_project_config.rs:209-221).                                     *)
(***************************************************************************)
InitConfig ==
    /\ InitLoop
    /\ InitNoServer
    /\ InitChannel
    /\ arg = NoArg
    /\ ret = <<>>
    /\ config_file \in ConfigFiles

\* the ticker branch: load_from_project reads the file as it is on disk now
TickOnDisk == Tick(config_file) /\ Len(changed_files') <= MaxLoopFiles

\* somebody writes, replaces or removes .ambient/config.toml
ConfigEdit ==
    /\ \E file \in ConfigFiles \ {config_file} : config_file' = file
    /\ NoSend
    /\ UNCHANGED <<loopVars, envVars, cycleVars, diffFailed, prompt_text,
                   result, hcalls, active, arg, ret, gwVars, chanVars>>

NextConfig ==
    \/ TickOnDisk
    \/ DiffStep
    \/ FileStep
    \/ RuleStep
    \/ ModelDone
    \/ AnalyzeReturn
    \/ CycleReturn
    \/ RecvEvent
    \/ ConfigEdit

SpecConfig == InitConfig /\ [][NextConfig]_vars

\* a cycle is past its status listing
InCycle == pc \in {"diff", "file", "rule", "model", "analyzed"}

\* C25: the step that starts a cycle takes the configuration from the
\* project file as it is at that moment (a disabled one ends the cycle at
\* once); no later step of the cycle changes it, whatever happens to the
\* file; and the exclusion test and the rules of each file of the cycle are
\* those of that configuration.
C25_ConfigPerCycle ==
    /\ [][AtSelect /\ pc' # "select" /\ pc' # "terminated" =>
            LET config == LoadProjectConfig(config_file)
            IN  /\ ~config.enabled => pc' = "cycle_ret" /\ result' = "ok"
                /\ InCycle' => project_config' = config]_vars
    /\ [][InCycle => project_config' = project_config]_vars
    /\ [](pc \in {"rule", "model"} =>
            /\ ~Excluded(changed_files[fi])
            /\ reviews = get_reviews_for_file(project_config, changed_files[fi]))

\* a model call of a cycle that began under the project's own rules is in
\* progress after the project file was removed
C25_Witness ==
    /\ pc = "model"
    /\ project_config = CustomConfig
    /\ config_file = "absent"

\* how many UserQuery events wait in the receiver of run_main
UnreadQueries == Len(SelectSeq(rxq, LAMBDA ev : ev.kind = "UserQuery"))

\* C26: run_query_response starts only in a step that takes a UserQuery out
\* of the loop's receiver; a step that takes any other event out leaves the
\* loop at select! with no model call and no publication; and a UserQuery
\* gets into the receiver only by the publication of one.  So there are
\* never more query calls than UserQuery events published.
C26_QueryCallsFromUserQueries ==
    /\ [][pc' = "query" /\ pc # "query" =>
            /\ rxq # <<>>
            /\ Head(rxq).kind = "UserQuery"
            /\ rxq' = Tail(rxq)]_vars
    /\ [][AtSelect /\ rxq # <<>> /\ rxq' = Tail(rxq)
              /\ Head(rxq).kind # "UserQuery" =>
            /\ pc' = "select"
            /\ sent' = <<>>
            /\ hcalls' = hcalls
            /\ active' = active]_vars
    /\ [][UnreadQueries' > UnreadQueries =>
            \E i \in 1..Len(sent') : sent'[i].kind = "UserQuery"]_vars

\* the loop is at select! and the next event of its receiver is the answer
\* it published itself, with a client's query waiting behind it
C26_Witness ==
    /\ AtSelect
    /\ ~recvDisabled
    /\ ~rxLagged
    /\ Len(rxq) >= 2
    /\ rxq[1].kind = "QueryResponse"
    /\ rxq[2].kind = "UserQuery"

\* C27: a stream that ends with neither Completed nor an error item
\* publishes exactly one event, the result whose text is the stream's
\* fragments in arrival order, and returns Ok: no error event.
C27_EndWithoutCompletion ==
    arg.fn = "run_prompt" /\ ret # <<>> =>
        LET s == arg.reply.stream
        IN  (\A i \in 1..Len(s) : s[i] \notin {"C", "E"}) =>
               /\ ret[1].ok
               /\ ret[1].events =
                     <<Event(arg.kind, "result",
                             SelectSeq(s, LAMBDA item : item \in Fragments))>>

\* two fragments around an ignored item, and then the end of the stream
C27_Witness ==
    /\ arg.fn = "run_prompt"
    /\ ret # <<>>
    /\ arg.reply.stream = <<"x", "O", "y">>
    /\ ret[1].events[1].text = <<"x", "y">>

\* the ports from the configured one that exist, the first ten at most
TenThatExist == {q \in FirstTen : q < PortMod}

\* C28: the port loop never fails on its arithmetic, never holds a port
\* number outside 0..65535, and gives up only when the configured port and
\* the following ports that exist, ten in all at most, are occupied.
C28_PortArithmeticInRange ==
    gw # "none" =>
        /\ gw # "panicked"
        /\ try_port \in 0..(PortMod - 1)
        /\ (gw = "stopped" => TenThatExist \subseteq busy)

\* C29: with a project file that cannot be read or parsed the ticker branch
\* can start a cycle, and every cycle it starts runs with the built-in
\* configuration (enabled, three rules, the default exclude set); the step
\* neither ends the loop nor publishes anything but the count message.
C29_InvalidFileMeansDefaults ==
    /\ [](AtSelect /\ config_file = "invalid" =>
            ENABLED (TickOnDisk /\ pc' = "diff"))
    /\ [][AtSelect /\ config_file = "invalid" /\ pc' # "select" =>
            /\ pc' # "terminated"
            /\ \A i \in 1..Len(sent') : sent'[i].tag = "count"
            /\ InCycle' =>
                 /\ project_config' = DefaultConfig
                 /\ project_config'.enabled
                 /\ Len(project_config'.reviews) = 3
                 /\ project_config'.exclude_patterns =
                       <<PatTarget, PatNodeModules, PatGit, PatMinJs>>]_vars

\* a cycle has just begun its diff batch under the built-in configuration
\* while the project file on disk is invalid
C29_Witness ==
    /\ pc = "diff"
    /\ di = 1
    /\ config_file = "invalid"
    /\ project_config = DefaultConfig

\* the tags of the events a step publishes
SentTags(evs) == {evs[i].tag : i \in 1..Len(evs)}

\* the events with tag t among those a step publishes
SentWith(evs, t) == {evs[i] : i \in {j \in 1..Len(evs) : evs[j].tag = t}}

\* the tags of the events that report the outcome of a model call
OutcomeTags == {"result", "stream_error", "connect_error", "error"}

\* C30: the events of a cycle follow its control: the files are taken in
\* listing order, one at a time; the start marker of changed_files[fi] is
\* published by the step that opens the file, a title only by a step that
\* begins a model call of the open file, a result or error only by the end
\* of that call, and the completion marker by the step that closes the file
\* and moves to the next one; an excluded file has only its skip message.
C30_EventsBracketedPerFile ==
    /\ [][\A ev \in SentWith(sent', "start") :
            pc = "file" /\ pc' = "rule" /\ fi' = fi /\ ev.text = changed_files[fi]]_vars
    /\ [][\A ev \in SentWith(sent', "skip") :
            pc = "file" /\ pc' = "file" /\ fi' = fi + 1 /\ ev.text = changed_files[fi]]_vars
    /\ [][\A ev \in SentWith(sent', "title") :
            /\ pc = "rule" /\ pc' = "model" /\ fi' = fi
            /\ hcalls'[Len(hcalls')].path = changed_files[fi]
            /\ ev.text = <<hcalls'[Len(hcalls')].title>>]_vars
    /\ [][SentTags(sent') \cap OutcomeTags # {} /\ pc \notin {"query", "query_ret"} =>
            /\ \/ pc = "model" /\ pc' = "analyzed"
               \/ pc = "analyzed" /\ pc' = "rule"
            /\ fi' = fi]_vars
    /\ [][\A ev \in SentWith(sent', "done") :
            pc = "rule" /\ pc' = "file" /\ fi' = fi + 1 /\ ev.text = changed_files[fi]]_vars
    /\ [][pc' = "rule" /\ pc # "rule" =>
            \/ pc = "file" /\ "start" \in SentTags(sent')
            \/ pc = "analyzed"]_vars
    /\ [][pc' = "model" /\ pc # "model" =>
            pc = "rule" /\ "title" \in SentTags(sent')]_vars
    /\ [][pc' = "analyzed" /\ pc # "analyzed" =>
            pc = "model" /\ SentTags(sent') \subseteq OutcomeTags /\ sent' # <<>>]_vars
    /\ [][pc' = "file" /\ <<pc, fi>>' # <<pc, fi>> =>
            \/ pc = "diff" /\ fi' = 1
            \/ pc = "file" /\ SentTags(sent') = {"skip"}
            \/ pc = "rule" /\ SentTags(sent') = {"done"}]_vars
    /\ [][fi' # fi /\ pc' # "file" => pc' \in {"cycle_ret", "select", "diff"}]_vars
    /\ [](pc \in {"rule", "model", "analyzed"} => fi \in 1..Len(changed_files))

\* the second file of the listing is open and the title of one of its model
\* calls has just been published
C30_Witness ==
    /\ pc = "model"
    /\ fi = 2
    /\ "title" \in SentTags(sent)

====
